---- MODULE Spec2Model ----
(***************************************************************************)
(* The upload session of the 123pan client, as the two implementations of  *)
(* upload_file drive it: Pan123Uploader.upload_file (src/file_uploader.py) *)
(* and Pan123FileManager.upload_file (src/get_token.py).  One behaviour of *)
(* the model is one call of upload_file; a step is the part of the         *)
(* function between two remote calls, the remote's answer being chosen     *)
(* from a small set.                                                       *)
(*                                                                         *)
(* Abstractions.  The local file of S bytes holds the byte values 1..S, so *)
(* that a byte names its offset.  hashlib.md5 is a one-bit checksum: equal *)
(* bytes give equal digests, different bytes may collide.  math.ceil of    *)
(* the float quotient file_size / slice_size is exact for sizes below      *)
(* 2^53 and is computed here on integers.  The number of polls is counted  *)
(* up to MaxPolls and saturates above it: the loop itself has no bound.    *)
(***************************************************************************)
EXTENDS Integers, Sequences, FiniteSets, TLC

\* ------------------------------------------------------------- bounds
MaxSize == 3
MaxSlice == 2
MaxParts == 3
MaxPolls == 3
MaxCopies == 2

\* ---------------------------------------------------------- constants
HTTP_OK == 200

\* ------------------------------------------------------------- inputs
Impls == {"Pan123Uploader", "Pan123FileManager"}
Messages == {"m1", "m2"}
\* The envelope of a response: code 0 with "ok", or an error code with its message.
Envelopes == {[code |-> 0, message |-> "ok"]} \cup
             { [code |-> c, message |-> m] : c \in {1, 401}, m \in Messages }
Digests == 0 .. 1
PutStatuses == {HTTP_OK, 201, 500}
Names == 0 .. MaxCopies
\* The presigned URLs get_upload_url may return.
Urls == {"u1", "u2"}
\* The configuration record at the entry of upload_file.
EntryConfig == [access_token |-> "t0", parent_folder_id |-> 0, upload_file_path |-> "a"]
NoErr == [step |-> "none", chunk |-> 0, msg |-> ""]
NoData == [keys |-> {}]
NoResp == [op |-> "none", code |-> 0, message |-> "", data |-> NoData]
NoCalls == [check |-> 0, create |-> 0, geturl |-> 0, put |-> 0, list |-> 0,
            complete |-> 0, poll |-> 0]

\* The local file of size S.
FileOf(S) == [i \in 1 .. S |-> i]

\* dict.get(key, default) on the data object of a response; data.keys is the
\* set of keys the remote sent.
Get(data, key, default) == IF key \in data.keys THEN data[key] ELSE default

\* The data objects of a create-file response: an instant upload carries the
\* id of the stored file, a chunked upload carries none yet; every other key
\* may be missing.
CreateData ==
    { [keys |-> ks \cup {"reuse"}, preuploadID |-> "P1", fileID |-> f, reuse |-> TRUE,
       sliceSize |-> k] :
        ks \in SUBSET {"preuploadID", "fileID", "sliceSize"},
        f \in {11, 12}, k \in -1 .. MaxSlice }
    \cup
    { [keys |-> ks, preuploadID |-> "P1", fileID |-> 0, reuse |-> FALSE, sliceSize |-> k] :
        ks \in SUBSET {"preuploadID", "reuse", "sliceSize"}, k \in -1 .. MaxSlice }

\* The data objects of a complete-upload response.
CompleteData ==
    { [keys |-> ks, fileID |-> 21, async |-> a, completed |-> c] :
        ks \in {{"async", "completed"}, {"fileID", "async", "completed"}},
        a \in BOOLEAN, c \in BOOLEAN }

\* The data objects of a poll-async-result response.
AsyncData == { [completed |-> c, fileID |-> f] : c \in BOOLEAN, f \in {21, 42} }

\* The part lists of a list-uploaded-parts response.
PartEntries == { [partNumber |-> n, etag |-> e] : n \in 1 .. MaxSize, e \in Digests }
PartLists == UNION { [1 .. n -> PartEntries] : n \in 0 .. MaxParts }

\* The access tokens the token endpoint may issue.
NewTokens == {"t1", "t2"}
\* The data objects of a token response; either key may be missing.
TokenData == [keys : SUBSET {"accessToken", "expiredAt"}, accessToken : NewTokens]
\* The ids select_file_or_folder may return.
Items == {5, 6}
\* The paths typed at the prompt of main; "" is an empty or missing path.
Paths == {"", "a", "b"}
\* The contents of config.json when main starts.
InitialFiles == {EntryConfig, [EntryConfig EXCEPT !.upload_file_path = ""]}
\* How a call of upload_file ends for main.
Outcomes == {"returned", "raised", "exited"}

\* ------------------------------------------------------ pure functions

RECURSIVE SumBytes(_)
SumBytes(bytes) == IF bytes = <<>> THEN 0 ELSE Head(bytes) + SumBytes(Tail(bytes))

\* hashlib.md5(chunk).hexdigest(), as a one-bit checksum.
calculate_chunk_md5(chunk) == SumBytes(chunk) % 2

\* The whole-file digest, read in 4096-byte windows: the digest of all bytes.
calculate_file_md5(bytes) == SumBytes(bytes) % 2

\* A variant of RespOk that takes every envelope for a success.
RespOk_any_code(code) == TRUE

\* data['code'] == 0 in every remote call.
RespOk(code) == code = 0

\* A variant of create_file that never sees the reuse flag.
create_file_no_reuse(data) ==
    [preupload_id |-> Get(data, "preuploadID", ""),
     file_id      |-> Get(data, "fileID", 0),
     is_reuse     |-> FALSE,
     slice_size   |-> Get(data, "sliceSize", 0)]

\* create_file's return tuple (preuploadID, fileID, reuse, sliceSize).
create_file(data) ==
    [preupload_id |-> Get(data, "preuploadID", ""),
     file_id      |-> Get(data, "fileID", 0),
     is_reuse     |-> Get(data, "reuse", FALSE),
     slice_size   |-> Get(data, "sliceSize", 0)]

\* complete_upload's return tuple (fileID, async, completed).
complete_upload(data) ==
    [file_id      |-> Get(data, "fileID", 0),
     is_async     |-> data.async,
     is_completed |-> data.completed]

\* A variant of TotalChunks: file_size // slice_size + 1.
TotalChunks_floor_plus_one(file_size, slice_size) == (file_size \div slice_size) + 1

\* math.ceil(file_size / slice_size), slice_size # 0 (either sign).
TotalChunks(file_size, slice_size) == 0 - ((0 - file_size) \div slice_size)

\* A variant of ReadChunk that reads every chunk at offset 0.
ReadChunk_from_start(bytes, fpos, slice_size) ==
    SubSeq(bytes, 1, IF slice_size < Len(bytes) THEN slice_size ELSE Len(bytes))

\* f.read(slice_size) at offset fpos, slice_size > 0.
ReadChunk(bytes, fpos, slice_size) ==
    SubSeq(bytes, fpos + 1,
           IF fpos + slice_size < Len(bytes) THEN fpos + slice_size ELSE Len(bytes))

\* A variant of LoopContinues that leaves the chunk loop after one chunk.
LoopContinues_once(chunk_index, total_chunks) == chunk_index < 1 /\ chunk_index < total_chunks

\* for chunk_index in range(total_chunks): there is a chunk of that index.
LoopContinues(chunk_index, total_chunks) == chunk_index < total_chunks

\* A variant of PutOk that never tests the status.
PutOk_unchecked(status) == TRUE

\* response.status_code != 200 is the failure of a chunk push.
PutOk(status) == status = HTTP_OK

\* A variant of NeedsVerify: file_size >= slice_size.
NeedsVerify_ge(file_size, slice_size) == file_size >= slice_size

\* "if file_size > slice_size": the parts are verified.
NeedsVerify(file_size, slice_size) == file_size > slice_size

\* next(p for p in server_parts if p['partNumber'] == n, None): the index of
\* the first entry with that part number, 0 for None.
FindPart(server_parts, n) ==
    LET hits == { j \in 1 .. Len(server_parts) : server_parts[j].partNumber = n }
    IN  IF hits = {} THEN 0 ELSE CHOOSE j \in hits : \A h \in hits : j <= h

\* A variant of PartFails that only tests that the part is listed.
PartFails_missing_only(local_part, server_parts) ==
    FindPart(server_parts, local_part.partNumber) = 0

\* "not server_part or server_part['etag'] != local_part['etag']".
PartFails(local_part, server_parts) ==
    LET j == FindPart(server_parts, local_part.partNumber)
    IN  j = 0 \/ server_parts[j].etag # local_part.etag

\* The first local part the verification loop raises on, 0 when none.
FirstBad(uploaded, server_parts) ==
    LET bad == { j \in 1 .. Len(uploaded) : PartFails(uploaded[j], server_parts) }
    IN  IF bad = {} THEN 0 ELSE CHOOSE j \in bad : \A h \in bad : j <= h

\* A variant of AsyncFileId that keeps complete_upload's id.
AsyncFileId_kept(file_id, final_file_id) == file_id

\* "file_id = final_file_id" when the poll reports completed.
AsyncFileId(file_id, final_file_id) == final_file_id

\* A variant of SliceNo that numbers the chunks from 0.
SliceNo_from_zero(chunk_index) == chunk_index

\* slice_no = chunk_index + 1.
SliceNo(chunk_index) == chunk_index + 1

\* A variant of PushTarget that pushes every chunk to one cached URL.
PushTarget_cached(upload_url) == "u1"

\* requests.put(upload_url, ...): the target of the push.
PushTarget(upload_url) == upload_url

\* The Content-Type header of the chunk push: the file manager passes
\* headers = {'Content-Type': 'application/octet-stream'}, the uploader passes
\* no headers.
PutContentType(cls) ==
    IF cls = "Pan123FileManager" THEN "application/octet-stream" ELSE ""

\* check_file_exists: the entry of fileList whose filename is the one asked for.
check_file_exists(fileList, filename) == filename \in fileList

\* -------------------------------------------------------------- state

VARIABLES
    impl,            \* the class whose upload_file runs
    file,            \* the bytes of the local file
    pc,              \* the position in upload_file
    filename,        \* 0 is the original name, N is name_copyN.ext
    counter,         \* the copy counter of the file manager
    preupload_id, file_id, is_reuse, slice_size,   \* create_file's result
    file_size, total_chunks, chunk_index, fpos, chunk, uploaded_chunks,
    upload_url,      \* get_upload_url's result, until the chunk is pushed
    server_parts,    \* list_uploaded_parts' result, until the verification ends
    is_async, is_completed,                        \* complete_upload's result
    completed, final_file_id,                      \* check_async_result's result
    result,          \* upload_file's return value
    err,             \* the exception upload_file raised
    req,             \* the last request sent
    lastResp,        \* the envelope of the last response received
    calls,           \* the number of calls made, per remote operation
    pollFalse,       \* the number of polls answered completed = false
    config,          \* self.config of the object whose upload_file runs
    config_file,     \* the contents of config.json
    tm_config,       \* TokenManager.config in main
    headers,         \* the bearer token in the file manager's headers
    mpc,             \* the position in main
    saved,           \* the upload parameters the file manager saved last
    issued           \* the token of the last successful get_access_token

session == <<impl, file>>
naming == <<filename, counter>>
created == <<preupload_id, file_id, is_reuse, slice_size, file_size, total_chunks>>
looping == <<chunk_index, fpos, chunk, uploaded_chunks>>
finishing == <<is_async, is_completed, completed, final_file_id, pollFalse>>
outside == <<tm_config, headers, mpc, saved, issued>>
unsent == <<session, naming, created, looping, upload_url, server_parts, finishing, pc,
            result, err, req, calls>>
locals == <<unsent, lastResp>>
vars == <<session, naming, created, looping, upload_url, server_parts, finishing, pc,
          result, err, req, lastResp, calls, config, config_file, outside>>

Terminal == {"done", "failed", "exited"}

Init ==
    /\ impl \in Impls
    /\ file \in { FileOf(S) : S \in 0 .. MaxSize }
    /\ pc = IF impl = "Pan123FileManager" THEN "check" ELSE "create"
    /\ filename = 0
    /\ counter = 0
    /\ preupload_id = ""
    /\ file_id = 0
    /\ is_reuse = FALSE
    /\ slice_size = 0
    /\ file_size = 0
    /\ total_chunks = 0
    /\ chunk_index = 0
    /\ fpos = 0
    /\ chunk = <<>>
    /\ uploaded_chunks = <<>>
    /\ upload_url = ""
    /\ server_parts = <<>>
    /\ is_async = FALSE
    /\ is_completed = FALSE
    /\ completed = FALSE
    /\ final_file_id = 0
    /\ result = 0
    /\ err = NoErr
    /\ req = [op |-> "none"]
    /\ lastResp = NoResp
    /\ calls = NoCalls
    /\ pollFalse = 0
    /\ config = EntryConfig
    /\ config_file = EntryConfig
    /\ tm_config = EntryConfig
    /\ headers = EntryConfig.access_token
    /\ mpc = "upload"
    /\ saved = [parent_folder_id |-> EntryConfig.parent_folder_id,
                upload_file_path |-> EntryConfig.upload_file_path]
    /\ issued = EntryConfig.access_token

\* Polls are counted up to MaxPolls; MaxPolls + 1 stands for any larger number.
Counted(n) == IF n > MaxPolls THEN n ELSE n + 1

\* A remote call: the request goes out, the envelope comes back.  data is the
\* data object of a create-file response, kept until the next call.
Call(op, request, env, data) ==
    /\ req' = request
    /\ lastResp' = [op |-> op, code |-> env.code, message |-> env.message, data |-> data]
    /\ calls' = [calls EXCEPT ![op] = IF op = "poll" THEN Counted(@) ELSE @ + 1]

\* A variant of Raise that swallows the exception and stays at the step.
Raise_swallowed(step, slice_no, msg) ==
    /\ pc' = pc
    /\ err' = [step |-> step, chunk |-> slice_no, msg |-> msg]

\* raise Exception(...): upload_file ends with the exception.
Raise(step, slice_no, msg) ==
    /\ pc' = "failed"
    /\ err' = [step |-> step, chunk |-> slice_no, msg |-> msg]

\* A variant of ConfigFrame that records the uploaded path and saves it.
ConfigFrame_saving ==
    /\ config' = [config EXCEPT !.upload_file_path = "b"]
    /\ config_file' = config'

\* upload_file assigns nothing to self.config and never calls save_config.
ConfigFrame == UNCHANGED <<config, config_file>>

\* Where upload_file goes when the chunk loop has ended.
AfterChunks(size, slice) == IF NeedsVerify(size, slice) THEN "list" ELSE "complete"

\* ------------------------------------------------------------ actions

\* Pan123FileManager.upload_file, the first existence check.
CheckFileExists ==
    /\ pc = "check"
    /\ \E env \in Envelopes, fileList \in SUBSET Names :
         /\ Call("check", [op |-> "check", filename |-> filename], env, NoData)
         /\ IF ~RespOk(env.code)
            THEN Raise("check_file_exists", 0, env.message)
            ELSE /\ pc' = IF check_file_exists(fileList, filename) THEN "prompt" ELSE "create"
                 /\ err' = err
    /\ UNCHANGED <<session, naming, created, looping, server_parts, finishing, result>>
    /\ UNCHANGED upload_url
    /\ ConfigFrame
    /\ UNCHANGED outside

\* The prompt "upload a copy? (y/n)": anything but y ends the process.
PromptCopy ==
    /\ pc = "prompt"
    /\ \E upload_copy \in {"y", "n"} :
         IF upload_copy # "y"
         THEN pc' = "exited" /\ counter' = counter
         ELSE pc' = "copy" /\ counter' = 1
    /\ UNCHANGED <<session, filename, created, looping, server_parts, finishing,
                   result, err, req, lastResp, calls>>
    /\ UNCHANGED upload_url
    /\ ConfigFrame
    /\ UNCHANGED outside

\* One test of "while self.check_file_exists(filename, parent_id)" and, when
\* it holds, the body of the loop.
CopyLoop ==
    /\ pc = "copy"
    /\ \E env \in Envelopes, fileList \in SUBSET Names :
         /\ Call("check", [op |-> "check", filename |-> filename], env, NoData)
         /\ IF ~RespOk(env.code)
            THEN /\ Raise("check_file_exists", 0, env.message)
                 /\ UNCHANGED naming
            ELSE IF check_file_exists(fileList, filename)
            THEN /\ counter <= MaxCopies
                 /\ filename' = counter
                 /\ counter' = counter + 1
                 /\ UNCHANGED <<pc, err>>
            ELSE /\ pc' = "create"
                 /\ UNCHANGED <<naming, err>>
    /\ UNCHANGED <<session, created, looping, server_parts, finishing, result>>
    /\ UNCHANGED upload_url
    /\ ConfigFrame
    /\ UNCHANGED outside

\* create_file, the reuse test, and the chunk count.
CreateFile ==
    /\ pc = "create"
    /\ \E env \in Envelopes, data \in CreateData :
         /\ Call("create",
                 [op |-> "create", filename |-> filename,
                  etag |-> calculate_file_md5(file), size |-> Len(file)],
                 env, data)
         /\ IF ~RespOk(env.code)
            THEN /\ Raise("create_file", 0, env.message)
                 /\ UNCHANGED <<created, result>>
            ELSE LET r == create_file(data) IN
                 /\ preupload_id' = r.preupload_id
                 /\ file_id' = r.file_id
                 /\ is_reuse' = r.is_reuse
                 /\ slice_size' = r.slice_size
                 /\ IF r.is_reuse
                    THEN /\ pc' = "done"
                         /\ result' = r.file_id
                         /\ UNCHANGED <<file_size, total_chunks, err>>
                    ELSE IF r.slice_size = 0
                    THEN /\ Raise("ZeroDivisionError", 0, "division by zero")
                         /\ file_size' = Len(file)
                         /\ UNCHANGED <<total_chunks, result>>
                    ELSE /\ file_size' = Len(file)
                         /\ total_chunks' = TotalChunks(Len(file), r.slice_size)
                         /\ pc' = IF LoopContinues(0, total_chunks') THEN "geturl"
                                  ELSE AfterChunks(Len(file), r.slice_size)
                         /\ UNCHANGED <<result, err>>
    /\ UNCHANGED <<session, naming, looping, server_parts, finishing>>
    /\ UNCHANGED upload_url
    /\ ConfigFrame
    /\ UNCHANGED outside

\* The head of the chunk loop: f.read(slice_size), then get_upload_url.
GetUploadUrl ==
    /\ pc = "geturl"
    /\ chunk' = ReadChunk(file, fpos, slice_size)
    /\ fpos' = fpos + Len(chunk')
    /\ \E env \in Envelopes :
         /\ Call("geturl",
                 [op |-> "geturl", preuploadID |-> preupload_id,
                  sliceNo |-> SliceNo(chunk_index)],
                 env, NoData)
         /\ IF ~RespOk(env.code)
            THEN /\ Raise("get_upload_url", 0, env.message)
                 /\ upload_url' = upload_url
            ELSE /\ pc' = "put"
                 /\ err' = err
                 /\ upload_url' \in Urls
    /\ UNCHANGED <<session, naming, created, chunk_index, uploaded_chunks,
                   server_parts, finishing, result>>
    /\ ConfigFrame
    /\ UNCHANGED outside

\* requests.put of the chunk, the status test, and the record of the chunk;
\* upload_url is not read again.
PutChunk ==
    /\ pc = "put"
    /\ \E status \in PutStatuses, text \in Messages :
         /\ Call("put",
                 [op |-> "put", url |-> PushTarget(upload_url),
                  content_type |-> PutContentType(impl),
                  sliceNo |-> SliceNo(chunk_index), data |-> chunk],
                 [code |-> status, message |-> text], NoData)
         /\ IF ~PutOk(status)
            THEN /\ Raise("put", SliceNo(chunk_index), text)
                 /\ UNCHANGED <<chunk_index, uploaded_chunks>>
            ELSE /\ uploaded_chunks' =
                        Append(uploaded_chunks,
                               [partNumber |-> SliceNo(chunk_index),
                                etag |-> calculate_chunk_md5(chunk)])
                 /\ chunk_index' = chunk_index + 1
                 /\ pc' = IF LoopContinues(chunk_index + 1, total_chunks) THEN "geturl"
                          ELSE AfterChunks(file_size, slice_size)
                 /\ err' = err
    /\ upload_url' = ""
    /\ UNCHANGED <<session, naming, created, fpos, chunk, server_parts, finishing, result>>
    /\ ConfigFrame
    /\ UNCHANGED outside

\* list_uploaded_parts.
ListUploadedParts ==
    /\ pc = "list"
    /\ \E env \in Envelopes, parts \in PartLists :
         /\ Call("list", [op |-> "list", preuploadID |-> preupload_id], env, NoData)
         /\ IF ~RespOk(env.code)
            THEN /\ Raise("list_uploaded_parts", 0, env.message)
                 /\ server_parts' = server_parts
            ELSE /\ server_parts' = parts
                 /\ pc' = "verify"
                 /\ err' = err
    /\ UNCHANGED <<session, naming, created, looping, finishing, result>>
    /\ UNCHANGED upload_url
    /\ ConfigFrame
    /\ UNCHANGED outside

\* The verification loop over uploaded_chunks; server_parts is not read again.
VerifyParts ==
    /\ pc = "verify"
    /\ LET b == FirstBad(uploaded_chunks, server_parts) IN
         IF b # 0
         THEN Raise("verify", uploaded_chunks[b].partNumber, "")
         ELSE pc' = "complete" /\ err' = err
    /\ server_parts' = <<>>
    /\ UNCHANGED <<session, naming, created, looping, finishing, result, req,
                   lastResp, calls>>
    /\ UNCHANGED upload_url
    /\ ConfigFrame
    /\ UNCHANGED outside

\* complete_upload and the test of is_async.
CompleteUpload ==
    /\ pc = "complete"
    /\ \E env \in Envelopes, data \in CompleteData :
         /\ Call("complete", [op |-> "complete", preuploadID |-> preupload_id],
                 env, NoData)
         /\ IF ~RespOk(env.code)
            THEN /\ Raise("complete_upload", 0, env.message)
                 /\ UNCHANGED <<file_id, is_async, is_completed, result>>
            ELSE LET r == complete_upload(data) IN
                 /\ file_id' = r.file_id
                 /\ is_async' = r.is_async
                 /\ is_completed' = r.is_completed
                 /\ pc' = IF r.is_async THEN "poll" ELSE "done"
                 /\ result' = IF r.is_async THEN result ELSE r.file_id
                 /\ err' = err
    /\ UNCHANGED <<session, naming, preupload_id, is_reuse, slice_size, file_size,
                   total_chunks, looping, server_parts, completed, final_file_id,
                   pollFalse>>
    /\ UNCHANGED upload_url
    /\ ConfigFrame
    /\ UNCHANGED outside

\* One turn of "while True": check_async_result, then break or sleep.
CheckAsyncResult ==
    /\ pc = "poll"
    /\ \E env \in Envelopes, data \in AsyncData :
         /\ Call("poll", [op |-> "poll", preuploadID |-> preupload_id], env, NoData)
         /\ IF ~RespOk(env.code)
            THEN /\ Raise("check_async_result", 0, env.message)
                 /\ UNCHANGED <<file_id, completed, final_file_id, pollFalse, result>>
            ELSE /\ completed' = data.completed
                 /\ final_file_id' = data.fileID
                 /\ IF data.completed
                    THEN /\ file_id' = AsyncFileId(file_id, data.fileID)
                         /\ pc' = "done"
                         /\ result' = file_id'
                         /\ pollFalse' = pollFalse
                    ELSE /\ pollFalse' = Counted(pollFalse)
                         /\ UNCHANGED <<file_id, pc, result>>
                 /\ err' = err
    /\ UNCHANGED <<session, naming, preupload_id, is_reuse, slice_size, file_size,
                   total_chunks, looping, server_parts, is_async, is_completed>>
    /\ UNCHANGED upload_url
    /\ ConfigFrame
    /\ UNCHANGED outside

Next ==
    \/ CheckFileExists
    \/ PromptCopy
    \/ CopyLoop
    \/ CreateFile
    \/ GetUploadUrl
    \/ PutChunk
    \/ ListUploadedParts
    \/ VerifyParts
    \/ CompleteUpload
    \/ CheckAsyncResult

Spec == Init /\ [][Next]_vars

\* The interpreter keeps running upload_file and the remote keeps answering.
LiveSpec == Spec /\ WF_vars(Next)

\* ------------------------------------------------------- main of get_token.py
\* The menu loop with its two objects; a call of upload_file is one step that
\* ends with an outcome and leaves the configuration as ConfigFrame says.

\* main: TokenManager and Pan123FileManager both load config.json.
MainInit ==
    /\ config_file \in InitialFiles
    /\ tm_config = config_file
    /\ config = config_file
    /\ headers = config_file.access_token
    /\ saved = [parent_folder_id |-> config_file.parent_folder_id,
                upload_file_path |-> config_file.upload_file_path]
    /\ issued = config_file.access_token
    /\ mpc = "menu"
    /\ impl = "Pan123FileManager"
    /\ file = <<>>
    /\ pc = "idle"
    /\ filename = 0
    /\ counter = 0
    /\ preupload_id = ""
    /\ file_id = 0
    /\ is_reuse = FALSE
    /\ slice_size = 0
    /\ file_size = 0
    /\ total_chunks = 0
    /\ chunk_index = 0
    /\ fpos = 0
    /\ chunk = <<>>
    /\ uploaded_chunks = <<>>
    /\ upload_url = ""
    /\ server_parts = <<>>
    /\ is_async = FALSE
    /\ is_completed = FALSE
    /\ completed = FALSE
    /\ final_file_id = 0
    /\ result = 0
    /\ err = NoErr
    /\ req = [op |-> "none"]
    /\ lastResp = NoResp
    /\ calls = NoCalls
    /\ pollFalse = 0

\* get_access_token with code 0: the token goes into TokenManager's own record
\* (the expiry and the time of the update, set next, are not modelled).
TokenSave(own, token) == [own EXCEPT !.access_token = token]

\* file_manager = Pan123FileManager(config_path): the record of the new file
\* manager is the file's contents.
Reloaded(old, on_disk) == on_disk

\* The answer of a remote call main makes outside upload_file.
Answer(op, env, data) == [op |-> op, code |-> env.code, message |-> env.message, data |-> data]

\* Where main is after a call of upload_file: sys.exit(0) of the declined
\* prompt is no Exception and ends the program.
AfterUpload(outcome) == IF outcome = "exited" THEN "ended" ELSE "menu"

\* Action 1: get_access_token, then a new Pan123FileManager. A refusal raises
\* before any assignment; data['data']['accessToken'] raises KeyError before
\* the assignment, data['data']['expiredAt'] after it and before save_config;
\* main prints the exception and keeps its file manager.
RefreshToken ==
    /\ mpc = "menu"
    /\ \E env \in Envelopes, data \in TokenData :
         /\ lastResp' = Answer("access_token", env, data)
         /\ IF ~RespOk(env.code) \/ "accessToken" \notin data.keys
            THEN UNCHANGED <<tm_config, config_file, config, headers, issued>>
            ELSE IF "expiredAt" \notin data.keys
            THEN /\ tm_config' = TokenSave(tm_config, data.accessToken)
                 /\ UNCHANGED <<config_file, config, headers, issued>>
            ELSE /\ tm_config' = TokenSave(tm_config, data.accessToken)
                 /\ config_file' = tm_config'
                 /\ config' = Reloaded(config, config_file')
                 /\ headers' = config'.access_token
                 /\ issued' = data.accessToken
    /\ UNCHANGED <<mpc, saved, unsent>>

\* Action 3 with the answer y: upload the path of the file manager's record.
UploadFromConfig ==
    /\ mpc = "menu"
    /\ IF config.upload_file_path = ""
       THEN mpc' = mpc
       ELSE \E outcome \in Outcomes : mpc' = AfterUpload(outcome)
    /\ ConfigFrame
    /\ UNCHANGED <<tm_config, headers, saved, issued, locals>>

\* Action 3 with the answer n: the chosen folder and the typed path go into
\* the file manager's record, which is saved, then upload_file is called; an
\* exception of the folder listing is not caught and ends main.
UploadChosen ==
    /\ mpc = "menu"
    /\ \E env \in Envelopes, item \in Items, path \in Paths, outcome \in Outcomes :
         /\ lastResp' = Answer("list_files", env, NoData)
         /\ IF ~RespOk(env.code)
            THEN /\ mpc' = "ended"
                 /\ UNCHANGED <<config, config_file, saved>>
            ELSE /\ config' = [config EXCEPT !.parent_folder_id = item,
                                             !.upload_file_path = path]
                 /\ config_file' = config'
                 /\ saved' = [parent_folder_id |-> item, upload_file_path |-> path]
                 /\ mpc' = AfterUpload(outcome)
    /\ UNCHANGED <<tm_config, headers, issued, unsent>>

\* Action 4.
Exit ==
    /\ mpc = "menu"
    /\ mpc' = "ended"
    /\ UNCHANGED <<config, config_file, tm_config, headers, saved, issued, locals>>

MainNext ==
    \/ RefreshToken
    \/ UploadFromConfig
    \/ UploadChosen
    \/ Exit

MainSpec == MainInit /\ [][MainNext]_vars

\* ------------------------------------------------------------- claims

\* upload_file has returned: no call follows and the result stands.
DoneIsFinal == [][pc = "done" => (pc' = "done" /\ calls' = calls /\ result' = result)]_vars

\* upload_file has raised: no call follows and no file id is returned.
FailedIsFinal == [][pc = "failed" => (pc' = "failed" /\ calls' = calls /\ err' = err)]_vars

\* create-file answered with code 0 and upload_file went on past it.
CreatedOk == calls.create = 1 /\ err.step # "create_file"

\* The session is a chunked upload with a usable slice size.
Planned == CreatedOk /\ ~is_reuse /\ slice_size > 0

\* The session is a chunked upload whose create-file response was complete.
Usable == Planned /\ preupload_id # ""

\* The last response is a create-file response that reports reuse = true.
ReuseReported ==
    /\ lastResp.op = "create"
    /\ lastResp.code = 0
    /\ "reuse" \in lastResp.data.keys
    /\ lastResp.data.reuse

NoUploadCalls ==
    /\ calls.geturl = 0
    /\ calls.put = 0
    /\ calls.list = 0
    /\ calls.complete = 0
    /\ calls.poll = 0

C1_State ==
    ReuseReported =>
        /\ pc = "done"
        /\ result = (IF "fileID" \in lastResp.data.keys THEN lastResp.data.fileID ELSE 0)
        /\ NoUploadCalls

\* C1: when create-file reports reuse = true, upload_file (of either class)
\* returns the fileID of that response and makes no get_upload_url, chunk push,
\* list-uploaded-parts, complete-upload or poll call, then or later.
C1_DedupPath == []C1_State /\ DoneIsFinal

C1_Witness ==
    /\ ReuseReported
    /\ pc = "done"
    /\ result = 12
    /\ impl = "Pan123FileManager"

\* C2: on the non-reuse path (here: after a complete create-file response)
\* upload_file returns a file id only if the complete-upload response or a
\* poll response reported completed = true; with async = false and
\* completed = false it does not return one.
C2_CompletedOnlyIfReported ==
    /\ (Usable /\ pc = "done") => (is_completed \/ completed)
    /\ (Usable /\ calls.complete = 1 /\ err.step # "complete_upload"
            /\ ~is_async /\ ~is_completed)
           => pc # "done"

\* The part list has no entry for the local part, or the entry found for it
\* (the first with its number) carries another digest.
MissingOrMismatch(local_part, parts) ==
    \/ \A j \in 1 .. Len(parts) : parts[j].partNumber # local_part.partNumber
    \/ \E j \in 1 .. Len(parts) :
         /\ parts[j].partNumber = local_part.partNumber
         /\ \A i \in 1 .. (j - 1) : parts[i].partNumber # local_part.partNumber
         /\ parts[j].etag # local_part.etag

C3_Step ==
    (/\ pc = "verify"
     /\ total_chunks > 1
     /\ \E j \in 1 .. Len(uploaded_chunks) :
            MissingOrMismatch(uploaded_chunks[j], server_parts))
        => (pc' = "failed" /\ calls' = calls)

C3_State ==
    /\ (total_chunks > 1 /\ (pc = "complete" \/ calls.complete > 0)) => calls.list = 1
    /\ (err.step = "verify" => pc = "failed" /\ calls.complete = 0)

\* C3: in a session of more than one chunk, a part list that lacks a sent
\* chunk's index, or lists it with a digest other than the local one, makes
\* upload_file fail: complete-upload is not called and no file id is returned;
\* and such a session never reaches complete-upload without the verification.
C3_VerificationCatchesCorruption ==
    /\ [][C3_Step]_vars
    /\ []C3_State
    /\ FailedIsFinal

C3_Witness ==
    /\ Usable
    /\ pc = "failed"
    /\ err.step = "verify"
    /\ err.chunk = 2
    /\ total_chunks = 2
    /\ Len(uploaded_chunks) = 2
    /\ calls.complete = 0

\* C4: with a slice size K > 0, total_chunks is ceil(S / K): 1 for S = K, 0 for
\* S = 0; no more transfers than that are made, all of them are made before
\* the session goes on, and an empty file goes on with no get_upload_url call
\* and no chunk push.
C4_ChunkCount ==
    Planned =>
        /\ total_chunks * slice_size >= Len(file)
        /\ (total_chunks - 1) * slice_size < Len(file)
        /\ total_chunks >= 0
        /\ (Len(file) = slice_size => total_chunks = 1)
        /\ (Len(file) = 0 => total_chunks = 0 /\ calls.geturl = 0 /\ calls.put = 0)
        /\ calls.geturl <= total_chunks
        /\ calls.put <= calls.geturl
        /\ (pc \in {"list", "verify", "complete", "poll", "done"}
                => calls.put = total_chunks /\ Len(uploaded_chunks) = total_chunks)

C4_Witness ==
    /\ Usable
    /\ Len(file) = 0
    /\ pc = "done"
    /\ calls.geturl = 0
    /\ calls.put = 0
    /\ calls.complete = 1

C5_State ==
    (pc = "done" /\ is_async /\ ~is_completed /\ calls.poll <= MaxPolls) =>
        /\ calls.poll = pollFalse + 1
        /\ lastResp.op = "poll"
        /\ completed
        /\ result = final_file_id

\* C5: after complete-upload reports async = true, completed = false, and n
\* polls answer completed = false before one answers completed = true with
\* file id F, upload_file has made n + 1 polls, returns F, and polls no more.
C5_AsyncCompletion == []C5_State /\ [][completed => calls' = calls]_vars

C5_Witness ==
    /\ Usable
    /\ pc = "done"
    /\ is_async
    /\ ~is_completed
    /\ pollFalse = 2
    /\ calls.poll = 3
    /\ final_file_id = 42
    /\ result = 42

\* The exception each remote call raises on a non-zero code.
StepOf(op) ==
    CASE op = "check" -> "check_file_exists"
      [] op = "create" -> "create_file"
      [] op = "geturl" -> "get_upload_url"
      [] op = "list" -> "list_uploaded_parts"
      [] op = "complete" -> "complete_upload"
      [] op = "poll" -> "check_async_result"
      [] OTHER -> "none"

C6_State ==
    (lastResp.op \in {"check", "create", "geturl", "list", "complete", "poll"}
     /\ lastResp.code # 0) =>
        /\ pc = "failed"
        /\ err.step = StepOf(lastResp.op)
        /\ err.msg = lastResp.message

\* C6: a non-zero code in the response of any remote call makes upload_file
\* fail with the remote message; no call follows (no retry, no later step) and
\* no file id is returned.
C6_ServerErrorAborts == []C6_State /\ FailedIsFinal

C6_Witness ==
    /\ Usable
    /\ pc = "failed"
    /\ lastResp.op = "poll"
    /\ lastResp.code = 401
    /\ err.msg = "m2"
    /\ calls.poll = 2

C7_State ==
    (lastResp.op = "put" /\ lastResp.code \notin 200 .. 299) =>
        /\ pc = "failed"
        /\ err.step = "put"
        /\ err.chunk = req.sliceNo
        /\ \A j \in 1 .. Len(uploaded_chunks) : uploaded_chunks[j].partNumber # req.sliceNo
        /\ calls.geturl = req.sliceNo
        /\ calls.put = req.sliceNo
        /\ calls.list = 0
        /\ calls.complete = 0

\* C7: a push of chunk i that ends with a non-success status makes upload_file
\* fail at once: chunk i is not recorded, no target is requested again for i
\* or for a later chunk, and neither list-uploaded-parts nor complete-upload
\* is called.
C7_PushFailureIsFinal == []C7_State /\ FailedIsFinal

C7_Witness ==
    /\ Usable
    /\ pc = "failed"
    /\ lastResp.op = "put"
    /\ lastResp.code = 500
    /\ req.sliceNo = 2
    /\ Len(uploaded_chunks) = 1

\* C8: a create-file response with code 0 and reuse = false that lacks the
\* preuploadID, or whose slice size is missing or not > 0, makes upload_file
\* fail before any get_upload_url, chunk push, list-uploaded-parts or
\* complete-upload call.
C8_UnusableCreateFails ==
    (CreatedOk /\ ~is_reuse /\ (preupload_id = "" \/ slice_size <= 0)) =>
        /\ pc = "failed"
        /\ calls.geturl = 0
        /\ calls.put = 0
        /\ calls.list = 0
        /\ calls.complete = 0

\* C9: a session that waits for the asynchronous result (here: after a
\* complete create-file response) ends, returned or failed, even when no poll
\* ever reports completed = true.
C9_AsyncWaitEnds ==
    (Usable /\ pc = "poll" /\ ~is_completed) ~> (pc \in {"done", "failed"})

C10_State ==
    Planned =>
        /\ (total_chunks > 1 <=> Len(file) > slice_size)
        /\ (calls.list > 0 => total_chunks > 1)
        /\ (total_chunks > 1 /\ (pc = "complete" \/ calls.complete > 0) => calls.list = 1)

C10_Step ==
    (Planned /\ pc = "put" /\ total_chunks <= 1 /\ pc' # "failed") => pc' = "complete"

\* C10: with a slice size K > 0, list-uploaded-parts is called exactly in the
\* sessions with total_chunks > 1, which are those with S > K; a session with
\* total_chunks <= 1 goes from its chunk push straight to complete-upload.
C10_VerifyIffManyChunks == []C10_State /\ [][C10_Step]_vars

C10_Witness ==
    /\ Usable
    /\ pc = "complete"
    /\ Len(file) = slice_size
    /\ total_chunks = 1
    /\ calls.put = 1
    /\ calls.list = 0

C11_State ==
    Planned =>
        /\ calls.put <= calls.geturl
        /\ calls.geturl <= calls.put + 1
        /\ calls.geturl <= total_chunks
        /\ (req.op = "geturl" =>
                /\ req.sliceNo = calls.geturl
                /\ req.sliceNo \in 1 .. total_chunks
                /\ req.preuploadID = preupload_id)
        /\ (req.op = "put" =>
                /\ req.sliceNo = calls.put
                /\ req.sliceNo \in 1 .. total_chunks
                /\ req.url \in Urls
                /\ calls.geturl = calls.put)
        /\ (pc = "put" =>
                /\ req.op = "geturl"
                /\ upload_url \in Urls
                /\ calls.geturl = calls.put + 1)
        /\ (pc \notin {"put", "failed"} => upload_url = "" /\ calls.geturl = calls.put)

C11_Step ==
    (Planned /\ pc = "put") =>
        /\ req'.op = "put"
        /\ req'.url = upload_url
        /\ req'.sliceNo = req.sliceNo
        /\ upload_url' = ""

\* C11: in a session the k-th get-chunk-target request asks for index k with the
\* session's token and the k-th push is the push of index k, so no index in
\* 1..total_chunks is requested or pushed twice; a push goes to the target the
\* request for its index has just returned, and that target is then dropped.
C11_FreshTargets == []C11_State /\ [][C11_Step]_vars

C11_Witness ==
    /\ Usable
    /\ req.op = "put"
    /\ req.sliceNo = 2
    /\ req.url = "u2"
    /\ lastResp.code = HTTP_OK
    /\ Len(uploaded_chunks) = 2

\* The first file offset of chunk i and the offset after its last byte.
ChunkLo(i) == (i - 1) * slice_size
ChunkHi(i) == IF i * slice_size < Len(file) THEN i * slice_size ELSE Len(file)

\* The bytes of the file at the offsets ChunkLo(i) .. ChunkHi(i) - 1.
ChunkBytes(i) == [j \in 1 .. (ChunkHi(i) - ChunkLo(i)) |-> file[ChunkLo(i) + j]]

C12_Ranges ==
    /\ \A i \in 1 .. total_chunks :
          /\ ChunkLo(i) < ChunkHi(i)
          /\ (i < total_chunks => ChunkHi(i) - ChunkLo(i) = slice_size)
          /\ (i < total_chunks => ChunkLo(i + 1) = ChunkHi(i))
    /\ (total_chunks > 0 => ChunkLo(1) = 0 /\ ChunkHi(total_chunks) = Len(file))
    /\ (total_chunks = 0 => Len(file) = 0)

\* C12: with K > 0 the byte ranges [(i-1)K, min(iK, S)) of the chunks 1..total_chunks
\* are non-empty, contiguous and cover [0, S), each but the last has K bytes;
\* the chunk read and pushed for index i is exactly the bytes of its range, and
\* the digest recorded for index i is the digest of those bytes.
C12_ChunkPartition ==
    Planned =>
        /\ C12_Ranges
        /\ (pc = "put" =>
                /\ chunk = ChunkBytes(chunk_index + 1)
                /\ fpos = ChunkHi(chunk_index + 1))
        /\ (req.op = "put" => req.data = ChunkBytes(req.sliceNo))
        /\ \A i \in 1 .. Len(uploaded_chunks) :
              /\ uploaded_chunks[i].partNumber = i
              /\ uploaded_chunks[i].etag = calculate_chunk_md5(ChunkBytes(i))
        /\ (Len(uploaded_chunks) = total_chunks => fpos = Len(file))

C12_Witness ==
    /\ Usable
    /\ Len(file) = 3
    /\ slice_size = 2
    /\ req.op = "put"
    /\ req.data = <<3>>
    /\ Len(uploaded_chunks) = 2
    /\ uploaded_chunks[2].etag = 1

\* C13: at every point of upload_file, on every path (instant upload, raised
\* error, declined prompt, normal completion), the configuration record in
\* memory and the configuration file are the ones upload_file was entered with.
C13_ConfigUntouched ==
    /\ config = EntryConfig
    /\ config_file = EntryConfig

C13_Witness ==
    /\ impl = "Pan123FileManager"
    /\ Usable
    /\ pc = "done"
    /\ calls.check > 1
    /\ calls.list = 1
    /\ calls.poll > 0
    /\ config = EntryConfig
    /\ config_file = EntryConfig

\* Every index in 1..total_chunks has been pushed with success and recorded.
AllSent == \A i \in 1 .. total_chunks : i <= Len(uploaded_chunks)

\* C14: the create-file request carries the digest of the whole file; a
\* get-chunk-target request is made only after a successful create-file; the
\* push of an index follows the target request for it; list-uploaded-parts and
\* complete-upload are made only when every index has been pushed with success,
\* complete-upload for S > K only after a list call whose verification passed;
\* polls are made only after a successful complete-upload.
C14_StepOrder ==
    /\ (calls.create > 0 =>
            /\ calls.create = 1
            /\ (req.op = "create" => req.etag = SumBytes(file) % 2))
    /\ (calls.geturl > 0 => CreatedOk /\ ~is_reuse)
    /\ calls.put <= calls.geturl
    /\ (pc = "put" => calls.geturl = calls.put + 1 /\ lastResp.op = "geturl" /\ lastResp.code = 0)
    /\ (calls.list > 0 => CreatedOk /\ ~is_reuse /\ AllSent /\ calls.put = Len(uploaded_chunks))
    /\ (pc = "complete" \/ calls.complete > 0 =>
            /\ CreatedOk
            /\ ~is_reuse
            /\ AllSent
            /\ calls.put = Len(uploaded_chunks)
            /\ err.step \notin {"list_uploaded_parts", "verify"}
            /\ (file_size > slice_size => calls.list = 1 /\ pc # "verify"))
    /\ (calls.poll > 0 =>
            /\ calls.complete = 1
            /\ err.step # "complete_upload"
            /\ is_async)
    /\ calls.complete <= 1
    /\ calls.list <= 1

C14_Witness ==
    /\ Usable
    /\ total_chunks = 2
    /\ calls.create = 1
    /\ calls.geturl = 2
    /\ calls.put = 2
    /\ calls.list = 1
    /\ calls.complete = 1
    /\ calls.poll = 1
    /\ pc = "done"

\* C15: when the complete-upload response reports completed = true, for either
\* value of async, the session is Completed with the file id of that response
\* and no poll is made.
C15_ImmediateCompletion ==
    (Usable /\ calls.complete = 1 /\ err.step # "complete_upload" /\ is_completed) =>
        /\ pc = "done"
        /\ result = file_id
        /\ calls.poll = 0

\* Every sent chunk has an entry of its index with its digest in the list.
FullMatch(local_parts, parts) ==
    \A i \in 1 .. Len(local_parts) :
        \E j \in 1 .. Len(parts) :
            /\ parts[j].partNumber = local_parts[i].partNumber
            /\ parts[j].etag = local_parts[i].etag

\* C16: when for every sent chunk the list of the remote holds an entry of the
\* same index with the local digest, verification passes, whatever the order
\* of the list, its extra indices, or its repeated indices.
C16_FullMatchAccepted ==
    (Usable /\ pc = "verify" /\ FullMatch(uploaded_chunks, server_parts)) =>
        FirstBad(uploaded_chunks, server_parts) = 0

\* The requests that carry the session token.
TokenOps == {"geturl", "list", "complete", "poll"}

C17_State ==
    /\ calls.create <= 1
    /\ calls.complete <= 1
    /\ (calls.create = 0 => preupload_id = "")
    /\ (pc \in {"geturl", "put", "list", "verify", "complete", "poll", "done"} =>
            calls.create = 1)
    /\ (req.op \in TokenOps =>
            /\ CreatedOk
            /\ ~is_reuse
            /\ req.preuploadID = preupload_id)

C17_Step ==
    /\ (pc \in Terminal => (pc' = pc /\ calls' = calls /\ req' = req))
    /\ (calls.create = 1 => preupload_id' = preupload_id)

C18_OneAtATime ==
    Planned =>
        /\ chunk_index = Len(uploaded_chunks)
        /\ calls.put \in {chunk_index, chunk_index + 1}
        /\ calls.geturl \in {chunk_index, chunk_index + 1}
        /\ \A i \in 1 .. Len(uploaded_chunks) : uploaded_chunks[i].partNumber = i
        /\ (req.op = "geturl" => req.sliceNo = Len(uploaded_chunks) + 1)
        /\ (pc = "put" => calls.geturl = chunk_index + 1 /\ calls.put = chunk_index)
        /\ (pc = "geturl" /\ chunk_index > 0 =>
                /\ req.op = "put"
                /\ req.sliceNo = chunk_index
                /\ lastResp.op = "put"
                /\ lastResp.code = HTTP_OK
                /\ uploaded_chunks[chunk_index].etag = calculate_chunk_md5(req.data)
                /\ calls.geturl = chunk_index
                /\ calls.put = chunk_index)

C18_Witness ==
    /\ Usable
    /\ pc = "geturl"
    /\ total_chunks = 3
    /\ chunk_index = 2
    /\ lastResp.op = "put"
    /\ Len(uploaded_chunks) = 2

\* The steps whose failure concerns one chunk.
ChunkSteps == {"get_upload_url", "put", "verify"}

\* C19: an error of upload_file names its step; the error of a target request,
\* of a push and of a verification names the index of the chunk it concerns;
\* an error caused by a refused remote call carries the message of the remote.
C19_ErrorContext ==
    (Usable /\ pc = "failed") =>
        /\ err.step # "none"
        /\ (err.step \in {"get_upload_url", "put"} => err.chunk = req.sliceNo)
        /\ (err.step = "verify" => err.chunk \in 1 .. total_chunks)
        /\ (err.step # "verify" => err.msg = lastResp.message)

\* C20: the configuration file, and the record of the file manager, hold the
\* parent_folder_id and the upload_file_path that were saved last, also after
\* a successful token refresh.
C20_NoLostUpdate ==
    /\ config_file.parent_folder_id = saved.parent_folder_id
    /\ config_file.upload_file_path = saved.upload_file_path
    /\ config.parent_folder_id = saved.parent_folder_id
    /\ config.upload_file_path = saved.upload_file_path

\* The answer of a token request that get_access_token did not return from.
TokenRequestFailed(resp) ==
    /\ resp.op = "access_token"
    /\ (resp.code # 0 \/ resp.data.keys # {"accessToken", "expiredAt"})

C21_Fresh ==
    /\ headers = config_file.access_token
    /\ config.access_token = config_file.access_token
    /\ config_file.access_token = issued

C21_FailureChangesNothing ==
    (lastResp' # lastResp /\ TokenRequestFailed(lastResp')) =>
        UNCHANGED <<config, config_file, tm_config, headers>>

\* C21: in main the bearer token of the file manager's headers is the
\* access_token of the configuration file, which is the token of the last
\* successful get_access_token or the initial one; a token request that fails
\* changes neither record in memory, nor the file, nor the file manager.
C21_TokenFreshness == []C21_Fresh /\ [][C21_FailureChangesNothing]_vars

\* A file manager session whose existence check reported no file of the name
\* and whose create-file response was complete.
NoConflict ==
    /\ impl = "Pan123FileManager"
    /\ Usable
    /\ counter = 0

\* C22: when the destination holds no file of the name, the file manager makes
\* one existence query and then the calls Pan123Uploader makes from the same
\* state: create-file with the original name, each push with the uploader's
\* arguments; the later steps are the same code in both classes.
C22_SameCalls ==
    NoConflict =>
        /\ calls.check = 1
        /\ filename = 0
        /\ (req.op = "put" =>
                /\ req.sliceNo = calls.put
                /\ req.data = ChunkBytes(req.sliceNo)
                /\ req.content_type = PutContentType("Pan123Uploader"))

\* The user accepted the upload of a copy.
CopyAccepted == impl = "Pan123FileManager" /\ counter >= 1

\* C23: a declined prompt ends the process with no create-file call and no
\* other upload call; after an accepted prompt the name sent to create-file is
\* not the original one but the copy name of the last candidate tried, the
\* candidates being tried in increasing N, and the last call before
\* create-file is the existence check of that name, answered with success.
C23_ConflictHandling ==
    /\ (pc = "exited" => calls.create = 0 /\ NoUploadCalls)
    /\ (CopyAccepted /\ pc = "create" =>
            /\ req = [op |-> "check", filename |-> filename]
            /\ lastResp.op = "check"
            /\ lastResp.code = 0)
    /\ (CopyAccepted /\ calls.create > 0 =>
            /\ filename = counter - 1
            /\ calls.check = counter + 1
            /\ filename # 0)

====
